---- MODULE Spec2Model ----
(***************************************************************************)
(* Riemann Surface Encryption Visualiser (src/app.js).                     *)
(*                                                                         *)
(* The page script is a set of callbacks run one at a time by the browser  *)
(* event loop: four pointer handlers on the canvas, the window resize      *)
(* handler, the animation frame callback, the encrypt button and the two   *)
(* checkbox handlers.  Each callback is one action.                        *)
(*                                                                         *)
(* Angles are fixed point numbers in units of 1e-7 radian, so the 0.005    *)
(* radian per pixel of the drag handler is 50000 units.  A torus point is  *)
(* kept as its two angles, each the pair <<n, m>> standing for 2*pi*n/m;   *)
(* x, y and z are the functions of those two angles of app.js:76-78.  A    *)
(* polynomial point keeps z.re and z.im in units of the 0.05 scale and the *)
(* radicand z^3 - 1 whose principal square root gives the third            *)
(* coordinate.  Strings are sequences: the text is its sequence of         *)
(* character codes, a form field its sequence of one-character strings.    *)
(***************************************************************************)
EXTENDS Integers, Sequences, FiniteSets, TLC

\* ------------------------------------------------------------------ bounds

\* Pointer coordinates are 0, 150, ..., MaxCoord * 150 pixels.
MaxCoord == 1
\* The yaw is unbounded in the program; the model stops dragging past
\* MaxYaw radians in either direction.
MaxYaw == 2
\* Longest text typed into the input box.
MaxTextLen == 2
\* Longest string typed into a parameter field.
MaxFieldLen == 2
\* Keys -MaxKey..MaxKey and moduli 1..MaxMod for the transforms on their own.
MaxKey == 2
MaxMod == 3

\* ------------------------------------------------------- program constants

rotX0 == 4000000
rotY0 == 8000000
radPerPixel == 50000
limit == 14707963

Abs(n) == IF n < 0 THEN -n ELSE n

Coords == {k * 150 : k \in 0..MaxCoord}
YawCap == MaxYaw * 10000000
CanvasSizes == {[width |-> 300, height |-> 150], [width |-> 800, height |-> 600]}

\* Character codes of "A" and "B".
Codes == {65, 66}
Texts == UNION {[1..n -> Codes] : n \in 0..MaxTextLen}

FieldNames == {"key1", "mod1", "key2", "mod2", "key3", "mod3"}
FieldChars == {"-", "0", "3", "x"}
FieldStrings == UNION {[1..n -> FieldChars] : n \in 0..MaxFieldLen}
\* The parameter fields as first shown (the key and modulus example of the
\* documentation).
DefaultFields ==
  [key1 |-> <<"3">>, mod1 |-> <<"5">>, key2 |-> <<"2">>, mod2 |-> <<"7">>,
   key3 |-> <<"1">>, mod3 |-> <<"2">>]

\* ---------------------------------------------------------- number parsing

Digits == {"0", "1", "2", "3", "4", "5", "6", "7", "8", "9"}

DigitValue(ch) ==
  CASE ch = "0" -> 0 [] ch = "1" -> 1 [] ch = "2" -> 2 [] ch = "3" -> 3
    [] ch = "4" -> 4 [] ch = "5" -> 5 [] ch = "6" -> 6 [] ch = "7" -> 7
    [] ch = "8" -> 8 [] ch = "9" -> 9

RECURSIVE SkipWhitespace(_)
SkipWhitespace(s) ==
  IF s # <<>> /\ Head(s) = " " THEN SkipWhitespace(Tail(s)) ELSE s

\* The value of the longest prefix of decimal digits of s, after the digits
\* read so far: <<>> when there is no digit at all.
RECURSIVE DigitPrefix(_, _)
DigitPrefix(s, acc) ==
  IF s # <<>> /\ Head(s) \in Digits
    THEN DigitPrefix(Tail(s), <<(IF acc = <<>> THEN 0 ELSE acc[1]) * 10 + DigitValue(Head(s))>>)
    ELSE acc

\* parseInt(s, 10): <<>> is NaN, <<n>> the integer n.
parseInt(s) ==
  LET t == SkipWhitespace(s)
      signed == t # <<>> /\ Head(t) \in {"+", "-"}
      negative == t # <<>> /\ Head(t) = "-"
      d == DigitPrefix(IF signed THEN Tail(t) ELSE t, <<>>)
  IN  IF d = <<>> THEN <<>> ELSE IF negative THEN <<-d[1]>> ELSE d

\* v || d on a parseInt result: NaN and 0 are falsy.
OrDefault(v, d) == IF v = <<>> \/ v[1] = 0 THEN d ELSE v[1]

\* The six parameters updateVisualisation reads from the form.
readParams(fields) ==
  [key1 |-> OrDefault(parseInt(fields.key1), 1),
   mod1 |-> OrDefault(parseInt(fields.mod1), 2),
   key2 |-> OrDefault(parseInt(fields.key2), 1),
   mod2 |-> OrDefault(parseInt(fields.mod2), 2),
   key3 |-> OrDefault(parseInt(fields.key3), 1),
   mod3 |-> OrDefault(parseInt(fields.mod3), 2)]

\* ------------------------------------------------------------- arithmetic

\* a % b of JavaScript, b # 0: the remainder has the sign of the dividend.
JsRem(a, b) ==
  LET m == Abs(a) % Abs(b) IN IF a < 0 THEN -m ELSE m

\* Complex numbers are pairs <<re, im>>.
ComplexSub(a, b) == <<a[1] - b[1], a[2] - b[2]>>
ComplexMul(a, b) == <<a[1] * b[1] - a[2] * b[2], a[1] * b[2] + a[2] * b[1]>>

RECURSIVE ComplexPowLoop(_, _, _, _)
ComplexPowLoop(z, n, i, result) ==
  IF i < n THEN ComplexPowLoop(z, n, i + 1, ComplexMul(result, z)) ELSE result

ComplexPow(z, n) == ComplexPowLoop(z, n, 0, <<1, 0>>)

\* ------------------------------------------------------------- transforms

\* The torus point of one character code: theta and phi as fractions of a
\* full turn.
torusPoint(code, key1, mod1, key2, mod2) ==
  [theta |-> <<JsRem(code * key1, mod1), mod1>>,
   phi |-> <<JsRem(code * key2, mod2), mod2>>]

RECURSIVE TorusLoop(_, _, _, _, _, _, _)
TorusLoop(text, key1, mod1, key2, mod2, i, pts) ==
  IF i <= Len(text)
    THEN TorusLoop(text, key1, mod1, key2, mod2, i + 1,
                   Append(pts, torusPoint(text[i], key1, mod1, key2, mod2)))
    ELSE pts

\* encryptToTorus with the loop started one character late.
encryptToTorusFromSecond(text, key1, mod1, key2, mod2) ==
  TorusLoop(text, key1, mod1, key2, mod2, 2, <<>>)

encryptToTorus(text, key1, mod1, key2, mod2) ==
  TorusLoop(text, key1, mod1, key2, mod2, 1, <<>>)

\* The polynomial point of one character code: x and y in units of the 0.05
\* scale, and the radicand w2 = z^3 - 1 of the third coordinate.
polyPoint(c, key, modVal) ==
  LET z == <<c, JsRem(c * key, modVal)>>
  IN  [x |-> z[1], y |-> z[2], w2 |-> ComplexSub(ComplexPow(z, 3), <<1, 0>>)]

RECURSIVE PolyLoop(_, _, _, _, _)
PolyLoop(text, key, modVal, i, pts) ==
  IF i <= Len(text)
    THEN PolyLoop(text, key, modVal, i + 1, Append(pts, polyPoint(text[i], key, modVal)))
    ELSE pts

encryptToPolynomial(text, key, modVal) == PolyLoop(text, key, modVal, 1, <<>>)

\* ------------------------------------------------------------------ state

VARIABLES
  rotX, rotY,            \* orbit angles, app.js:133-134
  dragging, lastMouse,   \* mouse interaction state, app.js:139-140
  torusData, polyData,   \* current encryption results, app.js:165-166
  showTorus, showComplex,\* visibility flags, app.js:167-168
  canvas,                \* canvas.width and canvas.height
  checked,               \* the checked state of the two checkboxes
  statusEl,              \* statusEl.textContent
  frame,                 \* the drawing calls of the latest draw()
  lastEvent,             \* history: the callback that ran last
  lastButton,            \* history: the latest of press, release, leave
  lastPointer,           \* history: clientX, clientY of the latest press or move
  torusCall, polyCall,   \* history: the arguments of the latest transform calls
  lastRead               \* history: what the latest updateVisualisation read

vars ==
  <<rotX, rotY, dragging, lastMouse, torusData, polyData, showTorus,
    showComplex, canvas, checked, statusEl, frame, lastEvent, lastButton,
    lastPointer, torusCall, polyCall, lastRead>>

orbitVars == <<rotX, rotY, dragging, lastMouse, lastButton, lastPointer>>
dataVars ==
  <<torusData, polyData, showTorus, showComplex, statusEl, torusCall,
    polyCall, lastRead>>

NoCall == [called |-> FALSE]

\* --------------------------------------------------------------- rendering

majorSteps == 24
minorSteps == 12

\* One ring of the reference grid: a stroked path of n vertices, ring k of
\* its family (constant theta or constant phi).  The vertices are the
\* projections of fixed torus points and are not kept.
GridStroke(family, k, n) ==
  [op |-> "stroke", style |-> "#dddddd", lineWidth |-> 1,
   ring |-> <<family, k>>, vertices |-> n]

drawTorusGrid ==
  [k \in 1..(majorSteps + 1) |-> GridStroke("theta", k - 1, minorSteps + 1)]
  \o
  [k \in 1..(minorSteps + 1) |-> GridStroke("phi", k - 1, majorSteps + 1)]

\* drawDataSet with the polyline closed back to its first point.
drawDataSetClosed(pts, color) ==
  IF Len(pts) = 0
    THEN <<>>
    ELSE <<[op |-> "stroke", style |-> color, lineWidth |-> 2,
            path |-> Append(pts, pts[1])]>>
         \o [i \in 1..Len(pts) |-> [op |-> "fill", style |-> color, arc |-> pts[i]]]

\* drawDataSet(pts, color): nothing for an empty set, else one stroked
\* polyline through the points in order and one filled marker per point.
drawDataSet(pts, color) ==
  IF Len(pts) = 0
    THEN <<>>
    ELSE <<[op |-> "stroke", style |-> color, lineWidth |-> 2, path |-> pts]>>
         \o [i \in 1..Len(pts) |-> [op |-> "fill", style |-> color, arc |-> pts[i]]]

\* draw(): the drawing calls of one frame, in the order they are issued.
draw(cv, showT, showC, tData, pData) ==
  <<[op |-> "clearRect", width |-> cv.width, height |-> cv.height]>>
  \o drawTorusGrid
  \o (IF showT THEN drawDataSet(tData, "#0066cc") ELSE <<>>)
  \o (IF showC THEN drawDataSet(pData, "#cc3300") ELSE <<>>)

\* --------------------------------------------------------------- recompute

RECURSIVE JoinAnd(_)
JoinAnd(names) ==
  IF Len(names) <= 1 THEN names
  ELSE <<Head(names), " and ">> \o JoinAnd(Tail(names))

\* statusText naming both surfaces whatever the flags.
statusTextAllSurfaces(text, showT, showC) ==
  IF Len(text) > 0
    THEN [kind |-> "Encoded", count |-> Len(text),
          noun |-> IF Len(text) = 1 THEN "character" ELSE "characters",
          on |-> <<"torus", " and ", "polynomial surface">>]
    ELSE [kind |-> "Enter some text and click \"Encrypt & Visualise\"."]

\* The status message of updateVisualisation, app.js:320-325.
statusText(text, showT, showC) ==
  LET surfaces == (IF showT THEN <<"torus">> ELSE <<>>)
                  \o (IF showC THEN <<"polynomial surface">> ELSE <<>>)
  IN  IF Len(text) > 0
        THEN [kind |-> "Encoded", count |-> Len(text),
              noun |-> IF Len(text) = 1 THEN "character" ELSE "characters",
              on |-> JoinAnd(surfaces)]
        ELSE [kind |-> "Enter some text and click \"Encrypt & Visualise\"."]

\* torusData as updateVisualisation leaves it: emptied, then filled when the
\* torus is shown and there is text.  p is the parameters read.
newTorusDataUngated(text, p, showT) ==
  IF Len(text) > 0
    THEN encryptToTorus(text, p.key1, p.mod1, p.key2, p.mod2)
    ELSE <<>>

newTorusData(text, p, showT) ==
  IF showT /\ Len(text) > 0
    THEN encryptToTorus(text, p.key1, p.mod1, p.key2, p.mod2)
    ELSE <<>>

\* polyData likewise.
newPolyData(text, p, showC) ==
  IF showC /\ Len(text) > 0
    THEN encryptToPolynomial(text, p.key3, p.mod3)
    ELSE <<>>

\* updateVisualisation(), app.js:301-326, as the values it assigns: text and
\* fields are what the form holds, cbT and cbC the two checkboxes.
updateVisualisation(text, fields, cbT, cbC) ==
  LET p == readParams(fields)
      doTorus == cbT /\ Len(text) > 0
      doPoly == cbC /\ Len(text) > 0
  IN  [showTorus |-> cbT,
       showComplex |-> cbC,
       torusData |-> newTorusData(text, p, cbT),
       polyData |-> newPolyData(text, p, cbC),
       statusEl |-> statusText(text, cbT, cbC),
       torusCall |-> IF doTorus
                       THEN [called |-> TRUE, text |-> text, key1 |-> p.key1,
                             mod1 |-> p.mod1, key2 |-> p.key2, mod2 |-> p.mod2]
                       ELSE NoCall,
       polyCall |-> IF doPoly
                      THEN [called |-> TRUE, text |-> text, key |-> p.key3,
                            modVal |-> p.mod3]
                      ELSE NoCall,
       lastRead |-> [text |-> text, fields |-> fields, showTorus |-> cbT,
                     showComplex |-> cbC]]

\* The primed data variables take the values updateVisualisation assigns.
Recompute(text, fields, cbT, cbC) ==
  \E r \in {updateVisualisation(text, fields, cbT, cbC)} :
      /\ showTorus' = r.showTorus
      /\ showComplex' = r.showComplex
      /\ torusData' = r.torusData
      /\ polyData' = r.polyData
      /\ statusEl' = r.statusEl
      /\ torusCall' = r.torusCall
      /\ polyCall' = r.polyCall
      /\ lastRead' = r.lastRead

\* ------------------------------------------------------------------- load

\* The state once the script has run to its end: the canvas sized, the
\* first updateVisualisation() done and the first frame drawn by animate().
Load(texts, fieldSets, boxes, sizes) ==
  \E text \in texts, fields \in fieldSets, cbT \in boxes, cbC \in boxes,
     size \in sizes :
    \E r \in {updateVisualisation(text, fields, cbT, cbC)} :
        /\ rotX = rotX0
        /\ rotY = rotY0
        /\ dragging = FALSE
        /\ lastMouse = [x |-> 0, y |-> 0]
        /\ canvas = size
        /\ checked = [showTorus |-> cbT, showComplex |-> cbC]
        /\ showTorus = r.showTorus
        /\ showComplex = r.showComplex
        /\ torusData = r.torusData
        /\ polyData = r.polyData
        /\ statusEl = r.statusEl
        /\ torusCall = r.torusCall
        /\ polyCall = r.polyCall
        /\ lastRead = r.lastRead
        /\ frame = draw(size, r.showTorus, r.showComplex, r.torusData, r.polyData)
        /\ lastEvent = "load"
        /\ lastButton = "none"
        /\ lastPointer = [x |-> 0, y |-> 0]

\* ---------------------------------------------------------- pointer events

\* clampRotX with the lower bound left out.
clampRotXNoLower(x) == IF x > limit THEN limit ELSE x

clampRotX(x) == IF x > limit THEN limit ELSE IF x < -limit THEN -limit ELSE x

MouseDown(x, y) ==
  /\ dragging' = TRUE
  /\ lastMouse' = [x |-> x, y |-> y]
  /\ lastEvent' = "mousedown"
  /\ lastButton' = "press"
  /\ lastPointer' = [x |-> x, y |-> y]
  /\ UNCHANGED <<rotX, rotY, canvas, checked, frame>>
  /\ UNCHANGED dataVars

\* MouseMove with the early return on ~dragging left out.
MouseMoveUnguarded(x, y) ==
  /\ lastEvent' = "mousemove"
  /\ lastPointer' = [x |-> x, y |-> y]
  /\ Abs(rotY + (x - lastMouse.x) * radPerPixel) <= YawCap
  /\ rotY' = rotY + (x - lastMouse.x) * radPerPixel
  /\ rotX' = clampRotX(rotX + (y - lastMouse.y) * radPerPixel)
  /\ lastMouse' = [x |-> x, y |-> y]
  /\ UNCHANGED <<dragging, lastButton, canvas, checked, frame>>
  /\ UNCHANGED dataVars

MouseMove(x, y) ==
  /\ lastEvent' = "mousemove"
  /\ lastPointer' = [x |-> x, y |-> y]
  /\ IF ~dragging
       THEN UNCHANGED <<rotX, rotY, lastMouse>>
       ELSE LET dx == x - lastMouse.x
                dy == y - lastMouse.y
            IN  /\ Abs(rotY + dx * radPerPixel) <= YawCap
                /\ rotY' = rotY + dx * radPerPixel
                /\ rotX' = clampRotX(rotX + dy * radPerPixel)
                /\ lastMouse' = [x |-> x, y |-> y]
  /\ UNCHANGED <<dragging, lastButton, canvas, checked, frame>>
  /\ UNCHANGED dataVars

MouseUp ==
  /\ dragging' = FALSE
  /\ lastEvent' = "mouseup"
  /\ lastButton' = "release"
  /\ UNCHANGED <<rotX, rotY, lastMouse, lastPointer, canvas, checked, frame>>
  /\ UNCHANGED dataVars

\* MouseLeave with the reset of dragging left out.
MouseLeaveKeepsDragging ==
  /\ lastEvent' = "mouseleave"
  /\ lastButton' = "leave"
  /\ UNCHANGED <<dragging, rotX, rotY, lastMouse, lastPointer, canvas, checked, frame>>
  /\ UNCHANGED dataVars

MouseLeave ==
  /\ dragging' = FALSE
  /\ lastEvent' = "mouseleave"
  /\ lastButton' = "leave"
  /\ UNCHANGED <<rotX, rotY, lastMouse, lastPointer, canvas, checked, frame>>
  /\ UNCHANGED dataVars

\* ------------------------------------------------- resize, frames, controls

resizeCanvas(size) ==
  /\ canvas' = size
  /\ lastEvent' = "resize"
  /\ UNCHANGED <<checked, frame>>
  /\ UNCHANGED orbitVars
  /\ UNCHANGED dataVars

\* A frame drawn in the middle of a recompute: the two sequences already
\* emptied and not yet assigned again.
animateMidRecompute ==
  /\ frame' = draw(canvas, showTorus, showComplex, <<>>, <<>>)
  /\ lastEvent' = "frame"
  /\ UNCHANGED <<canvas, checked>>
  /\ UNCHANGED orbitVars
  /\ UNCHANGED dataVars

\* One animation frame: animate() calls draw() and asks for the next frame.
animate ==
  /\ frame' = draw(canvas, showTorus, showComplex, torusData, polyData)
  /\ lastEvent' = "frame"
  /\ UNCHANGED <<canvas, checked>>
  /\ UNCHANGED orbitVars
  /\ UNCHANGED dataVars

\* A click on the encrypt button, the form holding text and fields.
EncryptClick(text, fields) ==
  /\ Recompute(text, fields, checked.showTorus, checked.showComplex)
  /\ lastEvent' = "click"
  /\ UNCHANGED <<canvas, checked, frame>>
  /\ UNCHANGED orbitVars

\* The user flips the torus checkbox and its change handler runs.
ShowTorusChange(text, fields) ==
  /\ checked' = [checked EXCEPT !.showTorus = ~checked.showTorus]
  /\ Recompute(text, fields, checked'.showTorus, checked'.showComplex)
  /\ lastEvent' = "showTorus"
  /\ UNCHANGED <<canvas, frame>>
  /\ UNCHANGED orbitVars

ShowComplexChange(text, fields) ==
  /\ checked' = [checked EXCEPT !.showComplex = ~checked.showComplex]
  /\ Recompute(text, fields, checked'.showTorus, checked'.showComplex)
  /\ lastEvent' = "showComplex"
  /\ UNCHANGED <<canvas, frame>>
  /\ UNCHANGED orbitVars

\* ----------------------------------------------------------- specifications

\* The whole page with the form left as first shown: the text "A", the
\* default parameters and both boxes ticked.
OrbitTexts == {<<65>>}
OrbitFields == {DefaultFields}

Init == Load(OrbitTexts, OrbitFields, {TRUE}, CanvasSizes)

Next ==
  \/ \E x \in Coords, y \in Coords : MouseDown(x, y)
  \/ \E x \in Coords, y \in Coords : MouseMove(x, y)
  \/ MouseUp
  \/ MouseLeave
  \/ \E size \in CanvasSizes : resizeCanvas(size)
  \/ animate
  \/ \E text \in OrbitTexts, fields \in OrbitFields : EncryptClick(text, fields)

Spec == Init /\ [][Next]_vars

\* The scene: the text and the parameters change between recomputes, the
\* boxes are flipped, frames are drawn; the pointer is left alone and the
\* canvas keeps its default size.
SceneFields ==
  {DefaultFields,
   [DefaultFields EXCEPT !.key1 = <<" ", "-", "3">>, !.mod3 = <<"x">>]}

InitScene == Load(Texts, SceneFields, {TRUE}, {[width |-> 300, height |-> 150]})

NextScene ==
  \/ animate
  \/ \E text \in Texts, fields \in SceneFields : EncryptClick(text, fields)
  \/ \E text \in Texts, fields \in SceneFields : ShowTorusChange(text, fields)
  \/ \E text \in Texts, fields \in SceneFields : ShowComplexChange(text, fields)

SpecScene == InitScene /\ [][NextScene]_vars

\* The parameter fields: one field at a time holds any string of
\* FieldStrings, the others their defaults, and the text is "A".
ParamFields ==
  {[DefaultFields EXCEPT ![f] = str] : f \in FieldNames, str \in FieldStrings}

InitParams == Load(OrbitTexts, OrbitFields, {TRUE}, CanvasSizes)

NextParams == \E fields \in ParamFields : EncryptClick(<<65>>, fields)

SpecParams == InitParams /\ [][NextParams]_vars

\* The two transforms on their own: the arguments of one call are drawn
\* from the texts, the keys -MaxKey..MaxKey and the moduli 1..MaxMod, and
\* the call is made.
PureKeys == (-MaxKey)..MaxKey
PureMods == 1..MaxMod

PureRest ==
  /\ rotX = rotX0
  /\ rotY = rotY0
  /\ dragging = FALSE
  /\ lastMouse = [x |-> 0, y |-> 0]
  /\ canvas = [width |-> 300, height |-> 150]
  /\ checked = [showTorus |-> TRUE, showComplex |-> TRUE]
  /\ showTorus = TRUE
  /\ showComplex = TRUE
  /\ torusData = <<>>
  /\ polyData = <<>>
  /\ statusEl = statusText(<<>>, TRUE, TRUE)
  /\ lastRead = [text |-> <<>>, fields |-> DefaultFields, showTorus |-> TRUE,
                 showComplex |-> TRUE]
  /\ frame = <<>>
  /\ lastEvent = "arguments"
  /\ lastButton = "none"
  /\ lastPointer = [x |-> 0, y |-> 0]

InitPure ==
  /\ PureRest
  /\ \/ /\ \E text \in Texts, key1 \in PureKeys, mod1 \in PureMods,
              key2 \in PureKeys, mod2 \in PureMods :
             torusCall = [called |-> TRUE, text |-> text, key1 |-> key1,
                          mod1 |-> mod1, key2 |-> key2, mod2 |-> mod2]
        /\ polyCall = NoCall
     \/ /\ \E text \in Texts, key \in PureKeys, modVal \in PureMods :
             polyCall = [called |-> TRUE, text |-> text, key |-> key,
                         modVal |-> modVal]
        /\ torusCall = NoCall

CallTorus ==
  /\ lastEvent = "arguments"
  /\ torusCall.called
  /\ torusData' = encryptToTorus(torusCall.text, torusCall.key1, torusCall.mod1,
                                 torusCall.key2, torusCall.mod2)
  /\ lastEvent' = "encryptToTorus"
  /\ UNCHANGED <<polyData, showTorus, showComplex, statusEl, torusCall, polyCall,
                 lastRead, canvas, checked, frame>>
  /\ UNCHANGED orbitVars

CallPolynomial ==
  /\ lastEvent = "arguments"
  /\ polyCall.called
  /\ polyData' = encryptToPolynomial(polyCall.text, polyCall.key, polyCall.modVal)
  /\ lastEvent' = "encryptToPolynomial"
  /\ UNCHANGED <<torusData, showTorus, showComplex, statusEl, torusCall, polyCall,
                 lastRead, canvas, checked, frame>>
  /\ UNCHANGED orbitVars

NextPure == CallTorus \/ CallPolynomial

SpecPure == InitPure /\ [][NextPure]_vars

\* ------------------------------------------------------------------ claims

InRange == -limit <= rotX /\ rotX <= limit

\* What a move while dragging would make of rotX before the clamp.
Unclamped == rotX + (lastPointer'.y - lastMouse.y) * radPerPixel

Pinned ==
  (lastEvent' = "mousemove" /\ dragging) =>
    /\ Unclamped > limit => rotX' = limit
    /\ Unclamped < -limit => rotX' = -limit
    /\ (-limit <= Unclamped /\ Unclamped <= limit) => rotX' = Unclamped

\* C1: from rotX = 0.4, rotY = 0.8, idle, after any pointer events rotX lies
\* in [-(pi/2 - 0.1), pi/2 - 0.1], and a move while dragging whose dy would
\* take rotX past a limit leaves it exactly at that limit.
C1_OrbitClamp ==
  /\ rotX = rotX0 /\ rotY = rotY0 /\ ~dragging
  /\ []InRange
  /\ [][Pinned]_vars

\* A drag has just been stopped at the upper limit.
C1_Witness == lastEvent = "mousemove" /\ dragging /\ rotX = limit

\* A drag has just been stopped at the lower limit.
C1_WitnessLower == lastEvent = "mousemove" /\ dragging /\ rotX = -limit

ControllerStep ==
  /\ lastEvent' = "mousedown" => (dragging' /\ lastMouse' = lastPointer')
  /\ (lastEvent' \in {"mouseup", "mouseleave"} /\ dragging) => ~dragging'
  /\ lastEvent' = "mousemove" => dragging' = dragging

\* C2: the controller is idle or dragging and starts idle; it is dragging
\* exactly when the latest of press, release and leave was a press; a press
\* records its position as the last position, a release or a leave while
\* dragging returns to idle, and a move never changes the state.
C2_TwoStateController ==
  /\ ~dragging
  /\ [](dragging \in BOOLEAN /\ (dragging <=> lastButton = "press"))
  /\ [][ControllerStep]_vars

\* The pointer left the canvas after a drag that turned the scene.
C2_Witness ==
  lastEvent = "mouseleave" /\ lastButton = "leave" /\ ~dragging /\ rotX # rotX0

OrbitFrame ==
  /\ (rotX' # rotX \/ rotY' # rotY) => (lastEvent' = "mousemove" /\ dragging)
  /\ (lastEvent' = "mousemove" /\ ~dragging) =>
       (rotX' = rotX /\ rotY' = rotY /\ lastMouse' = lastMouse)

\* C3: rotX and rotY change only on a move received while dragging; a move
\* while idle leaves rotX, rotY and the last position unchanged, and press,
\* release, leave, recompute, a frame and a resize leave rotX and rotY alone.
C3_OrbitChangesOnlyOnDrag == [][OrbitFrame]_vars

\* An idle move arrived away from the last recorded position, after a drag.
C3_Witness ==
  /\ lastEvent = "mousemove"
  /\ ~dragging
  /\ lastPointer # lastMouse
  /\ rotX # rotX0

\* The drawing calls of the frame made in the style of one point set.
InStyle(color) == SelectSeq(frame, LAMBDA e : e.op # "clearRect" /\ e.style = color)

TorusColor == "#0066cc"
PolyColor == "#cc3300"

\* C4: for moduli >= 1 each transform returns one point per character, the
\* i-th computed from the i-th character code alone, in input order; the
\* empty text gives the empty sequence.
C4_OnePointPerCharacter ==
  /\ lastEvent = "encryptToTorus" =>
       /\ Len(torusData) = Len(torusCall.text)
       /\ \A i \in 1..Len(torusCall.text) :
            torusData[i] = torusPoint(torusCall.text[i], torusCall.key1,
                                      torusCall.mod1, torusCall.key2, torusCall.mod2)
       /\ torusCall.text = <<>> => torusData = <<>>
  /\ lastEvent = "encryptToPolynomial" =>
       /\ Len(polyData) = Len(polyCall.text)
       /\ \A i \in 1..Len(polyCall.text) :
            polyData[i] = polyPoint(polyCall.text[i], polyCall.key, polyCall.modVal)
       /\ polyCall.text = <<>> => polyData = <<>>

\* The torus transform has run on a text of two different characters.
C4_Witness ==
  /\ lastEvent = "encryptToTorus"
  /\ Len(torusCall.text) >= 2
  /\ torusCall.text[1] # torusCall.text[2]
  /\ torusData[1] # torusData[2]

\* C5: whatever the parameter fields hold, every modulus updateVisualisation
\* passes to encryptToTorus and encryptToPolynomial is an integer >= 1.
C5_ModuliAtLeastOne ==
  /\ torusCall.called => (torusCall.mod1 >= 1 /\ torusCall.mod2 >= 1)
  /\ polyCall.called => polyCall.modVal >= 1

\* C6: after every recompute torusData is non-empty only if showTorus holds
\* and the text read was non-empty, polyData likewise with showComplex; and a
\* frame draws the torus set only if showTorus holds, the polynomial set only
\* if showComplex holds.
C6_FlagsGateDataAndDrawing ==
  /\ torusData # <<>> => (showTorus /\ lastRead.text # <<>>)
  /\ polyData # <<>> => (showComplex /\ lastRead.text # <<>>)
  /\ lastEvent = "frame" =>
       /\ InStyle(TorusColor) # <<>> => showTorus
       /\ InStyle(PolyColor) # <<>> => showComplex

\* A frame drawn after the torus box was cleared on a non-empty text: the
\* polynomial set is on the canvas and the torus set is not.
C6_Witness ==
  /\ lastEvent = "frame"
  /\ ~showTorus
  /\ showComplex
  /\ lastRead.text # <<>>
  /\ InStyle(PolyColor) # <<>>
  /\ InStyle(TorusColor) = <<>>

\* The surface names a status message lists, without the " and " between.
ReportedSurfaces == SelectSeq(statusEl.on, LAMBDA n : n # " and ")

ActiveSurfaces ==
  (IF showTorus THEN <<"torus">> ELSE <<>>)
  \o (IF showComplex THEN <<"polynomial surface">> ELSE <<>>)

EmptyInputReported ==
  lastRead.text = <<>> =>
    /\ statusEl.kind # "Encoded"
    /\ torusData = <<>>
    /\ polyData = <<>>

\* C7 as stated: for empty text the prompt is reported and both sequences are
\* empty; for non-empty text the reported count is text.length, which is the
\* number of points produced for each surface, and the surfaces named are
\* those whose flag is on, torus first.
C7_StatusAsStated ==
  /\ EmptyInputReported
  /\ lastRead.text # <<>> =>
       /\ statusEl.kind = "Encoded"
       /\ statusEl.count = Len(lastRead.text)
       /\ Len(torusData) = statusEl.count
       /\ Len(polyData) = statusEl.count
       /\ ReportedSurfaces = ActiveSurfaces

\* C7 amended: the reported count is text.length, which is the number of
\* points produced for each surface whose flag is on; a surface whose flag is
\* off has no points.
C7_StatusCountsShownSurfaces ==
  /\ EmptyInputReported
  /\ lastRead.text # <<>> =>
       /\ statusEl.kind = "Encoded"
       /\ statusEl.count = Len(lastRead.text)
       /\ Len(torusData) = (IF showTorus THEN statusEl.count ELSE 0)
       /\ Len(polyData) = (IF showComplex THEN statusEl.count ELSE 0)
       /\ ReportedSurfaces = ActiveSurfaces

\* The button was clicked on a two character text with only the torus shown.
C7_Witness ==
  /\ lastEvent = "click"
  /\ Len(lastRead.text) = 2
  /\ showTorus
  /\ ~showComplex
  /\ statusEl.kind = "Encoded"

\* The residue of the mathematical reduction of c * key modulo m >= 1.
Residue(c, key, m) == (c * key) % m

\* C8: for every code c, every integer key and every modulus m >= 1 the
\* residue the transforms use is (c * key) mod m in 0..m-1: im for the
\* polynomial transform, the numerators of theta and phi for the torus.
C8_ResidueInRange ==
  /\ lastEvent = "encryptToTorus" =>
       \A i \in 1..Len(torusData) :
         /\ torusData[i].theta[1] =
              Residue(torusCall.text[i], torusCall.key1, torusCall.mod1)
         /\ torusData[i].phi[1] =
              Residue(torusCall.text[i], torusCall.key2, torusCall.mod2)
         /\ torusData[i].theta[1] \in 0..(torusCall.mod1 - 1)
         /\ torusData[i].phi[1] \in 0..(torusCall.mod2 - 1)
  /\ lastEvent = "encryptToPolynomial" =>
       \A i \in 1..Len(polyData) :
         /\ polyData[i].y = Residue(polyCall.text[i], polyCall.key, polyCall.modVal)
         /\ polyData[i].y \in 0..(polyCall.modVal - 1)

\* The two sequences the snapshot read by the latest recompute gives.
SnapshotTorus ==
  LET p == readParams(lastRead.fields)
  IN  IF lastRead.showTorus /\ lastRead.text # <<>>
        THEN encryptToTorus(lastRead.text, p.key1, p.mod1, p.key2, p.mod2)
        ELSE <<>>

SnapshotPoly ==
  LET p == readParams(lastRead.fields)
  IN  IF lastRead.showComplex /\ lastRead.text # <<>>
        THEN encryptToPolynomial(lastRead.text, p.key3, p.mod3)
        ELSE <<>>

\* The points of the polyline a frame strokes in one style, <<>> if none.
StrokedPath(color) ==
  LET strokes == SelectSeq(InStyle(color), LAMBDA e : e.op = "stroke")
  IN  IF strokes = <<>> THEN <<>> ELSE strokes[1].path

\* C9: a recompute runs to completion between frames, so torusData and
\* polyData are always the complete result of one recompute (same text, same
\* parameters, same flags), and what a frame draws is that result, never the
\* emptied sequences of a recompute under way.
C9_FramesSeeOneRecompute ==
  /\ torusData = SnapshotTorus
  /\ polyData = SnapshotPoly
  /\ showTorus = lastRead.showTorus
  /\ showComplex = lastRead.showComplex
  /\ lastEvent = "frame" =>
       /\ StrokedPath(TorusColor) = SnapshotTorus
       /\ StrokedPath(PolyColor) = SnapshotPoly

\* A frame drawn with both sets on the canvas, after the polynomial box had
\* been cleared and ticked again.
C9_Witness ==
  /\ lastEvent = "frame"
  /\ Len(StrokedPath(TorusColor)) = 2
  /\ Len(StrokedPath(PolyColor)) = 2
  /\ StrokedPath(TorusColor)[1] # StrokedPath(TorusColor)[2]

GridLen == (majorSteps + 1) + (minorSteps + 1)

\* Entries first..first+n of the frame draw pts in one style: a polyline of
\* n - 1 segments through the points in order, then n markers in order.
DrawsSet(first, pts, color) ==
  LET n == Len(pts)
  IN  /\ frame[first].op = "stroke"
      /\ frame[first].style = color
      /\ frame[first].path = pts
      /\ Len(frame[first].path) - 1 = n - 1
      /\ \A i \in 1..n :
           /\ frame[first + i].op = "fill"
           /\ frame[first + i].style = color
           /\ frame[first + i].arc = pts[i]

\* The number of frame entries a point set takes.
Drawn(shown, pts) == IF shown /\ pts # <<>> THEN 1 + Len(pts) ELSE 0

\* C10: a frame clears the surface, then draws the grid, then the torus set
\* if enabled, then the polynomial set if enabled; n >= 1 points are n - 1
\* segments with no closing segment and then n markers, and an empty set
\* draws nothing.
C10_FixedDrawOrder ==
  lastEvent = "frame" =>
    LET nT == Drawn(showTorus, torusData)
        nP == Drawn(showComplex, polyData)
    IN  /\ Len(frame) = 1 + GridLen + nT + nP
        /\ frame[1].op = "clearRect"
        /\ \A i \in 2..(1 + GridLen) :
             frame[i].op = "stroke" /\ frame[i].style = "#dddddd"
        /\ nT > 0 => DrawsSet(2 + GridLen, torusData, TorusColor)
        /\ nP > 0 => DrawsSet(2 + GridLen + nT, polyData, PolyColor)

\* A frame with both sets drawn, two points each.
C10_Witness ==
  /\ lastEvent = "frame"
  /\ showTorus
  /\ showComplex
  /\ Len(torusData) = 2
  /\ Len(polyData) = 2
  /\ Len(frame) = 1 + GridLen + 6

====
